---- MODULE Spec2Model ----
(***************************************************************************)
(* The VersionSet trait of src/src/version_set.rs and its implementation   *)
(* for Ranges<T>.  The trait's default methods and the delegating impl are *)
(* translated from the source; the Ranges type itself (crate::Ranges) is   *)
(* not among the source files and is modelled from spec.md sections 3-4.   *)
(*                                                                         *)
(* The version type T is the totally ordered set Versions = 1..MaxV.       *)
(* A bound is <<kind, v>>, a segment <<start, end>>, a Ranges value the    *)
(* sequence of its segments.                                               *)
(***************************************************************************)
EXTENDS Integers, Sequences, FiniteSets

VARIABLES a, b, c

vars == <<a, b, c>>

\* Number of versions of the version type T.
MaxV == 3

Versions == 1..MaxV

(***************************************************************************)
(* Bounds and segments (spec.md section 3).                                *)
(***************************************************************************)
Unbounded == <<"Unbounded", 0>>

Included(v) == <<"Included", v>>

Excluded(v) == <<"Excluded", v>>

\* Position of a lower bound in the order of lower bounds:
\* Unbounded < Included(v) < Excluded(v) < Included(v+1).
StartKey(bd) ==
  IF bd[1] = "Unbounded" THEN 0
  ELSE IF bd[1] = "Included" THEN 2 * bd[2]
  ELSE 2 * bd[2] + 1

\* Position of an upper bound in the order of upper bounds:
\* Excluded(v) < Included(v) < Excluded(v+1) < Unbounded.
EndKey(bd) ==
  IF bd[1] = "Unbounded" THEN 2 * MaxV + 2
  ELSE IF bd[1] = "Included" THEN 2 * bd[2]
  ELSE 2 * bd[2] - 1

\* An interval is non-empty as a pair of bounds: low < high, accounting
\* for inclusivity.  Only the order of T is used: (Excluded(1), Excluded(2))
\* is a segment whether or not T has a version between 1 and 2.
valid_segment(start, end) ==
  IF start[1] = "Unbounded" \/ end[1] = "Unbounded" THEN TRUE
  ELSE IF start[1] = "Included" /\ end[1] = "Included" THEN start[2] <= end[2]
  ELSE start[2] < end[2]

\* The bound on the other side of a gap edge.
negate_bound(bd) ==
  IF bd[1] = "Included" THEN Excluded(bd[2])
  ELSE IF bd[1] = "Excluded" THEN Included(bd[2])
  ELSE Unbounded

\* An upper bound and the next lower bound leave versions of the order
\* between them: they neither overlap nor touch at a shared bound.
end_before_start_with_gap(end, start) ==
  IF end[1] = "Unbounded" \/ start[1] = "Unbounded" THEN FALSE
  ELSE IF end[1] = "Excluded" /\ start[1] = "Excluded" THEN end[2] <= start[2]
  ELSE end[2] < start[2]

(***************************************************************************)
(* Ranges<T>: construction (spec.md section 4.2).                          *)
(***************************************************************************)
Ranges_empty == <<>>

Ranges_full == << <<Unbounded, Unbounded>> >>

Ranges_singleton(v) == << <<Included(v), Included(v)>> >>

RECURSIVE insert_segment(_, _)
insert_segment(sorted, seg) ==
  IF sorted = <<>> THEN <<seg>>
  ELSE IF StartKey(seg[1]) < StartKey(Head(sorted)[1]) THEN <<seg>> \o sorted
  ELSE <<Head(sorted)>> \o insert_segment(Tail(sorted), seg)

RECURSIVE sort_segments(_)
sort_segments(segs) ==
  IF segs = <<>> THEN <<>>
  ELSE insert_segment(sort_segments(Tail(segs)), Head(segs))

RECURSIVE merge_from(_, _, _)
merge_from(sorted, i, cur) ==
  IF i > Len(sorted) THEN <<cur>>
  ELSE IF end_before_start_with_gap(cur[2], sorted[i][1])
       THEN <<cur>> \o merge_from(sorted, i + 1, sorted[i])
       ELSE merge_from(sorted, i + 1,
              <<cur[1], IF EndKey(cur[2]) >= EndKey(sorted[i][2])
                        THEN cur[2] ELSE sorted[i][2]>>)

\* The general constructor: drop empty intervals, sort by lower bound, merge
\* every interval that overlaps or touches the running interval.
normalize(segs) ==
  LET kept == SelectSeq(segs, LAMBDA s : valid_segment(s[1], s[2]))
      sorted == sort_segments(kept)
  IN IF sorted = <<>> THEN <<>> ELSE merge_from(sorted, 2, sorted[1])

(***************************************************************************)
(* Ranges<T>: complement (spec.md section 4.3), the sequence of gaps.      *)
(***************************************************************************)
Ranges_complement(s) ==
  LET n == Len(s)
      gap(k) == << IF k = 0 THEN Unbounded ELSE negate_bound(s[k][2]),
                   IF k = n THEN Unbounded ELSE negate_bound(s[k + 1][1]) >>
      keep(k) == /\ (k = 0 /\ n > 0) => s[1][1] # Unbounded
                 /\ (k = n /\ n > 0) => s[n][2] # Unbounded
      gaps == [k \in 1..(n + 1) |-> k - 1]
      kept == SelectSeq(gaps, keep)
  IN [i \in 1..Len(kept) |-> gap(kept[i])]

(***************************************************************************)
(* Ranges<T>: intersection (spec.md section 4.4), a two-pointer merge.     *)
(***************************************************************************)
RECURSIVE intersect_from(_, _, _, _)
intersect_from(l, r, i, j) ==
  IF i > Len(l) \/ j > Len(r) THEN <<>>
  ELSE LET start == IF StartKey(l[i][1]) >= StartKey(r[j][1])
                    THEN l[i][1] ELSE r[j][1]
           end == IF EndKey(l[i][2]) <= EndKey(r[j][2])
                  THEN l[i][2] ELSE r[j][2]
           out == IF valid_segment(start, end) THEN << <<start, end>> >> ELSE <<>>
           ni == IF EndKey(l[i][2]) <= EndKey(r[j][2]) THEN i + 1 ELSE i
           nj == IF EndKey(r[j][2]) <= EndKey(l[i][2]) THEN j + 1 ELSE j
       IN out \o intersect_from(l, r, ni, nj)

Ranges_intersection(s, other) == intersect_from(s, other, 1, 1)

(***************************************************************************)
(* Ranges<T>: membership (spec.md section 4.5), an ordered scan.           *)
(***************************************************************************)
Ranges_contains(s, v) ==
  \E i \in 1..Len(s) :
     /\ StartKey(s[i][1]) <= 2 * v
     /\ 2 * v <= EndKey(s[i][2])

(***************************************************************************)
(* Ranges<T>: the operations the impl overrides for performance            *)
(* (spec.md section 4.1): direct scans, no intermediate complement.        *)
(***************************************************************************)
Ranges_union(s, other) == normalize(s \o other)

RECURSIVE disjoint_from(_, _, _, _)
disjoint_from(l, r, i, j) ==
  IF i > Len(l) \/ j > Len(r) THEN TRUE
  ELSE IF ~valid_segment(r[j][1], l[i][2]) THEN disjoint_from(l, r, i + 1, j)
  ELSE IF ~valid_segment(l[i][1], r[j][2]) THEN disjoint_from(l, r, i, j + 1)
  ELSE FALSE

Ranges_is_disjoint(s, other) == disjoint_from(s, other, 1, 1)

RECURSIVE subset_from(_, _, _, _)
subset_from(sub, cont, i, j) ==
  IF i > Len(sub) THEN TRUE
  ELSE IF j > Len(cont) THEN FALSE
  ELSE IF ~valid_segment(sub[i][1], cont[j][2]) THEN subset_from(sub, cont, i, j + 1)
  ELSE IF /\ StartKey(cont[j][1]) <= StartKey(sub[i][1])
          /\ EndKey(sub[i][2]) <= EndKey(cont[j][2])
       THEN subset_from(sub, cont, i + 1, j)
       ELSE FALSE

Ranges_subset_of(s, other) == subset_from(s, other, 1, 1)

(***************************************************************************)
(* impl VersionSet for Ranges<T> (version_set.rs 74-112): every method     *)
(* delegates to the inherent method of Ranges of the same name.            *)
(***************************************************************************)
empty == Ranges_empty

singleton(v) == Ranges_singleton(v)

\* Mutant: returns a clone of self.
complement_clone(s) == s

complement(s) == Ranges_complement(s)

\* Mutant: delegates to the union.
intersection_as_union(s, other) == Ranges_union(s, other)

\* Mutant: passes self for other.
intersection_ignores_other(s, other) == Ranges_intersection(s, s)

intersection(s, other) == Ranges_intersection(s, other)

contains(s, v) == Ranges_contains(s, v)

\* Mutant: delegates to the wrong constructor.
full_as_empty == Ranges_empty

full == Ranges_full

\* Mutant: the segments of both, without the sort and merge pass.
union_unmerged(s, other) == s \o other

union(s, other) == Ranges_union(s, other)

\* Mutant: delegates to the subset test.
is_disjoint_as_subset(s, other) == Ranges_subset_of(s, other)

is_disjoint(s, other) == Ranges_is_disjoint(s, other)

\* Mutant: receiver and argument swapped.
subset_of_swapped(s, other) == Ranges_subset_of(other, s)

subset_of(s, other) == Ranges_subset_of(s, other)

(***************************************************************************)
(* trait VersionSet, automatically implemented functions                   *)
(* (version_set.rs 46-71), over the primitives of the impl.                *)
(***************************************************************************)
VersionSet_full == complement(empty)

\* Mutant: the outer complement is missing.
VersionSet_union_no_outer(s, other) ==
  intersection(complement(s), complement(other))

VersionSet_union(s, other) ==
  complement(intersection(complement(s), complement(other)))

VersionSet_is_disjoint(s, other) == intersection(s, other) = empty

\* Mutant: compares other, not self, with the intersection.
VersionSet_subset_of_other(s, other) == other = intersection(s, other)

VersionSet_subset_of(s, other) == s = intersection(s, other)

(***************************************************************************)
(* The state machine: three version-set values held by a caller, each      *)
(* replaced by the result of one trait operation on the values held.       *)
(***************************************************************************)
Regs == {"a", "b", "c"}

Read(r) == IF r = "a" THEN a ELSE IF r = "b" THEN b ELSE c

\* The value held in register n after register r is assigned val.
Put(r, n, val) == IF r = n THEN val ELSE Read(n)

Init ==
  /\ a = empty
  /\ b = empty
  /\ c = empty

DoEmpty ==
  \E r \in Regs :
     LET val == empty
     IN /\ a' = Put(r, "a", val)
        /\ b' = Put(r, "b", val)
        /\ c' = Put(r, "c", val)

DoSingleton ==
  \E r \in Regs, v \in Versions :
     LET val == singleton(v)
     IN /\ a' = Put(r, "a", val)
        /\ b' = Put(r, "b", val)
        /\ c' = Put(r, "c", val)

DoFull ==
  \E r \in Regs :
     LET val == full
     IN /\ a' = Put(r, "a", val)
        /\ b' = Put(r, "b", val)
        /\ c' = Put(r, "c", val)

DoComplement ==
  \E r \in Regs, x \in Regs :
     LET val == complement(Read(x))
     IN /\ a' = Put(r, "a", val)
        /\ b' = Put(r, "b", val)
        /\ c' = Put(r, "c", val)

DoIntersection ==
  \E r \in Regs, x \in Regs, y \in Regs :
     LET val == intersection(Read(x), Read(y))
     IN /\ a' = Put(r, "a", val)
        /\ b' = Put(r, "b", val)
        /\ c' = Put(r, "c", val)

DoUnion ==
  \E r \in Regs, x \in Regs, y \in Regs :
     LET val == union(Read(x), Read(y))
     IN /\ a' = Put(r, "a", val)
        /\ b' = Put(r, "b", val)
        /\ c' = Put(r, "c", val)

Next ==
  \/ DoEmpty
  \/ DoSingleton
  \/ DoFull
  \/ DoComplement
  \/ DoIntersection
  \/ DoUnion

Spec == Init /\ [][Next]_vars

(***************************************************************************)
(* Vocabulary of the properties.                                           *)
(***************************************************************************)
\* x and y accept the same membership predicate over the version domain.
SameMembers(x, y) == \A v \in Versions : contains(x, v) <=> contains(y, v)

\* No version of the domain is contained in both x and y.
NoCommonVersion(x, y) == ~\E v \in Versions : contains(x, v) /\ contains(y, v)

\* Every version contained in x is contained in y.
AllMembersIn(x, y) == \A v \in Versions : contains(x, v) => contains(y, v)

\* The versions that are an endpoint of some interval of x.
BoundVersions(x) ==
  {x[i][k][2] : i \in 1..Len(x), k \in {1, 2}} \cap Versions

\* Some version of the domain is an endpoint of no interval of x or y.
SpareVersion(x, y) == BoundVersions(x) \cup BoundVersions(y) # Versions

\* Version v lies within the bounds of segment seg.
SegContains(seg, v) == StartKey(seg[1]) <= 2 * v /\ 2 * v <= EndKey(seg[2])

\* The intervals of x are valid bound pairs, ordered by increasing lower
\* bound, and none starts before an earlier one ends.
WellFormed(x) ==
  /\ \A i \in 1..Len(x) : valid_segment(x[i][1], x[i][2])
  /\ \A i, j \in 1..Len(x) : i < j => StartKey(x[i][1]) < StartKey(x[j][1])
  /\ \A i, j \in 1..Len(x) : i < j => ~valid_segment(x[j][1], x[i][2])

\* Merging intervals i and i+1 of x into one would add a version of the
\* domain to x.
MergeChangesMembership(x, i) ==
  \E v \in Versions : SegContains(<<x[i][1], x[i + 1][2]>>, v) /\ ~contains(x, v)

\* Canonical form, adjacency read over the versions of the domain: no two
\* consecutive intervals can be merged without changing membership.
CanonicalByMembership(x) ==
  /\ WellFormed(x)
  /\ \A i \in 1..(Len(x) - 1) : MergeChangesMembership(x, i)

\* Canonical form, adjacency read over the bounds: consecutive intervals
\* neither overlap nor touch at a shared bound version.
CanonicalByBounds(x) ==
  /\ WellFormed(x)
  /\ \A i \in 1..(Len(x) - 1) : end_before_start_with_gap(x[i][2], x[i + 1][1])

C2_MembershipModel ==
  \A w \in Versions :
     /\ ~contains(empty, w)
     /\ \A v \in Versions : contains(singleton(v), w) <=> (w = v)
     /\ contains(complement(a), w) <=> ~contains(a, w)
     /\ contains(intersection(a, b), w) <=> (contains(a, w) /\ contains(b, w))

C2_Witness ==
  /\ c = intersection(a, b)
  /\ c # empty /\ c # a /\ c # b
  /\ Len(a) >= 2

(***************************************************************************)
(* C3.                                                                     *)
(***************************************************************************)
\* C3: complement is an involution under structural equality, with
\* complement(empty) = full and complement(full) = empty.
C3_ComplementInvolution ==
  /\ complement(complement(a)) = a
  /\ complement(empty) = full
  /\ complement(full) = empty

C3_Witness ==
  /\ b = complement(a)
  /\ Len(a) >= 2
  /\ Len(b) >= 2
  /\ a # b

(***************************************************************************)
(* C4.                                                                     *)
(***************************************************************************)
\* C4: full is the identity of intersection and absorbing for union, empty
\* is absorbing for intersection and the identity of union, structurally.
C4_IdentityAbsorption ==
  /\ intersection(a, full) = a
  /\ intersection(a, empty) = empty
  /\ union(a, empty) = a
  /\ union(a, full) = full

C4_Witness ==
  /\ Len(a) >= 2
  /\ b = full
  /\ c = intersection(a, b)

(***************************************************************************)
(* C5.                                                                     *)
(***************************************************************************)
\* C5: intersection and union are commutative and associative under
\* structural equality.
C5_CommutativeAssociative ==
  /\ intersection(a, b) = intersection(b, a)
  /\ union(a, b) = union(b, a)
  /\ intersection(intersection(a, b), c) = intersection(a, intersection(b, c))
  /\ union(union(a, b), c) = union(a, union(b, c))

C5_Witness ==
  /\ a # b /\ b # c /\ a # c
  /\ Len(a) >= 2 /\ Len(b) >= 2 /\ Len(c) >= 1
  /\ intersection(intersection(a, b), c) # empty
  /\ union(union(a, b), c) # full

C8_SubsetOfIntersection ==
  /\ subset_of(a, intersection(a, b))
  /\ VersionSet_subset_of(a, intersection(a, b))

\* C8 (amended): the intersection of a with any b is reported as a subset
\* of a; a is reported as a subset of that intersection exactly when it is
\* reported as a subset of b.
C8_IntersectionSubsetOf ==
  /\ subset_of(intersection(a, b), a)
  /\ VersionSet_subset_of(intersection(a, b), a)
  /\ subset_of(a, intersection(a, b)) <=> subset_of(a, b)
  /\ VersionSet_subset_of(a, intersection(a, b)) <=> VersionSet_subset_of(a, b)

C8_Witness ==
  /\ c = intersection(a, b)
  /\ c # a /\ c # b /\ c # empty
  /\ subset_of(c, a)
  /\ ~subset_of(a, c)

(***************************************************************************)
(* C9.                                                                     *)
(***************************************************************************)
\* C9: each operation the impl overrides returns what the trait's default
\* derivation returns on the same inputs.
C9_OverridesMatchDefaults ==
  /\ full = VersionSet_full
  /\ union(a, b) = VersionSet_union(a, b)
  /\ is_disjoint(a, b) <=> VersionSet_is_disjoint(a, b)
  /\ subset_of(a, b) <=> VersionSet_subset_of(a, b)

C9_Witness ==
  /\ c = union(a, b)
  /\ c # a /\ c # b /\ c # full
  /\ Len(a) >= 2 /\ Len(b) >= 2
  /\ ~is_disjoint(a, b)
  /\ ~subset_of(a, b)

(***************************************************************************)
(* C10.                                                                    *)
(***************************************************************************)
\* C10 (as stated): every value built by the operations is in canonical
\* form: its intervals are non-empty, ordered by increasing lower bound,
\* pairwise non-overlapping, and no two consecutive intervals can be merged
\* into one without changing membership.
C10_CanonicalForm ==
  \A r \in Regs : CanonicalByMembership(Read(r))

\* C10 (amended): every value built by the operations is in canonical
\* form: its intervals are non-empty, ordered by increasing lower bound,
\* pairwise non-overlapping, and no two consecutive intervals overlap or
\* touch at a shared bound version.
C10_CanonicalFormBounds ==
  \A r \in Regs : CanonicalByBounds(Read(r))

C10_Witness ==
  /\ c = union(a, b)
  /\ Len(c) >= 2
  /\ Len(c) < Len(a) + Len(b)
  /\ c # a /\ c # b

====
